---- MODULE Spec2Model ----
(***************************************************************************)
(* A model of DataAnonymizer (src/data_anonymizer.py): reversible          *)
(* anonymization of the free-text and categorical columns of a table.      *)
(*                                                                         *)
(* A Python str is a sequence of one-character strings.  A cell of a table *)
(* is a record [ty, s]: the Python type of the value and its string form   *)
(* str(value).  A dict is a sequence of <<key, value>> pairs in insertion  *)
(* order with pairwise different keys, as Python's dict iterates.          *)
(***************************************************************************)
EXTENDS Integers, Sequences, FiniteSets, TLC

(***************************************************************************)
(* Python string primitives used by the code.  They are defined over the   *)
(* positions of the string, not by recursion on its characters: a cell     *)
(* grows to hundreds of characters once tokens are substituted into it.    *)
(***************************************************************************)

\* s[i:i + len(p)] == p, for a 1-based i
StartsAt(s, p, i) ==
    /\ i + Len(p) - 1 <= Len(s)
    /\ \A k \in 1..Len(p) : s[i + k - 1] = p[k]

\* the places where p occurs in s
Occurrences(s, p) == { i \in 1..(Len(s) - Len(p) + 1) : StartsAt(s, p, i) }

\* p in s
Occurs(p, s) == Occurrences(s, p) # {}

\* the occurrences a left-to-right scan for the non-empty p takes: one that
\* no taken occurrence before it overlaps
Matches(s, p) ==
    LET occ == Occurrences(s, p)
        RECURSIVE Taken(_)
        Taken(i) == \A j \in occ : (i - Len(p) < j /\ j < i) => ~Taken(j)
    IN  { i \in occ : Taken(i) }

\* the concatenation of Piece(lo), ..., Piece(hi)
RECURSIVE Concat(_, _, _)
Concat(Piece(_), lo, hi) ==
    IF lo > hi THEN << >>
    ELSE IF lo = hi THEN Piece(lo)
    ELSE LET mid == (lo + hi) \div 2
         IN  Concat(Piece, lo, mid) \o Concat(Piece, mid + 1, hi)

\* the k-th smallest member of a set of numbers
Nth(S, k) == CHOOSE x \in S : Cardinality({ y \in S : y < x }) = k - 1

\* str.replace(old, new): every non-overlapping occurrence, left to right; an
\* empty old matches before every character and at the end
Replace(s, old, new) ==
    IF old = << >>
    THEN LET Piece(i) == new \o << s[i] >>
         IN  Concat(Piece, 1, Len(s)) \o new
    ELSE LET ms == Matches(s, old)
             n == Cardinality(ms)
             \* what lies between the matches k - 1 and k, then new
             Piece(k) ==
                 SubSeq(s, IF k = 1 THEN 1 ELSE Nth(ms, k - 1) + Len(old),
                        IF k = n + 1 THEN Len(s) ELSE Nth(ms, k) - 1)
                 \o (IF k = n + 1 THEN << >> ELSE new)
         IN  IF ms = {} THEN s ELSE Concat(Piece, 1, n + 1)

\* str.split(sep) for a one-character sep: never an empty list
Split(s, sep) ==
    LET at == { i \in 1..Len(s) : s[i] = sep }
        From(k) == IF k = 1 THEN 1 ELSE Nth(at, k - 1) + 1
        To(k) == IF k = Cardinality(at) + 1 THEN Len(s) ELSE Nth(at, k) - 1
    IN  [k \in 1..(Cardinality(at) + 1) |-> SubSeq(s, From(k), To(k))]

\* sep.join(parts)
Join(sep, parts) ==
    LET Piece(k) == IF k = 1 THEN parts[1] ELSE sep \o parts[k]
    IN  Concat(Piece, 1, Len(parts))

(***************************************************************************)
(* Python dict: <<key, value>> pairs in insertion order.                   *)
(***************************************************************************)

Keys(d) == { d[i][1] : i \in 1..Len(d) }

Has(d, k) == k \in Keys(d)

Get(d, k) == d[CHOOSE i \in 1..Len(d) : d[i][1] = k][2]

\* d.update({k: v}): a present key keeps its place and takes the new value
Update(d, k, v) ==
    IF Has(d, k)
    THEN [i \in 1..Len(d) |-> IF d[i][1] = k THEN << k, v >> ELSE d[i]]
    ELSE Append(d, << k, v >>)

\* if _hash not in hash_dict_: hash_dict_.update({_hash: value})
UpdateIfNew(d, k, v) == IF Has(d, k) THEN d ELSE Update(d, k, v)

(***************************************************************************)
(* re.findall for the two pattern shapes the model draws overrides from:   *)
(* an escaped literal, and a character class repeated one or more times.   *)
(* Neither has a group, so every match is the matched text.                *)
(***************************************************************************)

\* re.findall(re.escape(lit), s)
LitMatches(s, lit) == [k \in 1..Cardinality(Matches(s, lit)) |-> lit]

\* re.findall("[" + class + "]+", s): the maximal runs of characters of class
RunMatches(s, class) ==
    LET first == { i \in 1..Len(s) : s[i] \in class /\ (i = 1 \/ s[i - 1] \notin class) }
        final == { i \in 1..Len(s) : s[i] \in class /\ (i = Len(s) \/ s[i + 1] \notin class) }
    IN  [k \in 1..Cardinality(first) |-> SubSeq(s, Nth(first, k), Nth(final, k))]

FindAll(regex, s) ==
    IF regex.kind = "lit" THEN LitMatches(s, regex.arg)
    ELSE RunMatches(s, { regex.arg[k] : k \in 1..Len(regex.arg) })

(***************************************************************************)
(* hashlib.md5(str(x).encode()).hexdigest().  Md5Digests lists the real    *)
(* digest of every content key the bounded inputs below can mint; a key    *)
(* outside the list stops the check instead of getting an invented digest. *)
(***************************************************************************)

\* <<content key, hexdigest>>
Md5Digests ==
    {
      << << "3", "f" >>,
         << "8", "4", "8", "d", "8", "5", "f", "8", "0", "1", "e", "9", "8",
            "9", "c", "6", "8", "a", "4", "d", "f", "0", "1", "d", "9", "d",
            "4", "c", "1", "e", "9", "e" >> >>,
      << << "7" >>,
         << "8", "f", "1", "4", "e", "4", "5", "f", "c", "e", "e", "a", "1",
            "6", "7", "a", "5", "a", "3", "6", "d", "e", "d", "d", "4", "b",
            "e", "a", "2", "5", "4", "3" >> >>,
      << << "A" >>,
         << "7", "f", "c", "5", "6", "2", "7", "0", "e", "7", "a", "7", "0",
            "f", "a", "8", "1", "a", "5", "9", "3", "5", "b", "7", "2", "e",
            "a", "c", "b", "e", "2", "9" >> >>,
      << << "A", "l" >>,
         << "1", "9", "7", "c", "d", "c", "c", "5", "3", "f", "0", "6", "2",
            "5", "3", "0", "d", "6", "2", "5", "6", "e", "d", "d", "c", "6",
            "f", "c", "1", "8", "e", "6" >> >>,
      << << "B" >>,
         << "9", "d", "5", "e", "d", "6", "7", "8", "f", "e", "5", "7", "b",
            "c", "c", "a", "6", "1", "0", "1", "4", "0", "9", "5", "7", "a",
            "f", "a", "b", "5", "7", "1" >> >>,
      << << "N", "o", "n", "e" >>,
         << "6", "a", "d", "f", "9", "7", "f", "8", "3", "a", "c", "f", "6",
            "4", "5", "3", "d", "4", "a", "6", "a", "4", "b", "1", "0", "7",
            "0", "f", "3", "7", "5", "4" >> >>,
      << << "B", "e", "r", "t" >>,
         << "b", "d", "d", "f", "d", "b", "2", "8", "8", "7", "0", "c", "5",
            "8", "0", "0", "d", "9", "3", "8", "f", "a", "0", "9", "9", "3",
            "c", "4", "6", "d", "6", "5" >> >>,
      << << "a" >>,
         << "0", "c", "c", "1", "7", "5", "b", "9", "c", "0", "f", "1", "b",
            "6", "a", "8", "3", "1", "c", "3", "9", "9", "e", "2", "6", "9",
            "7", "7", "2", "6", "6", "1" >> >>,
      << << "B", "e", "r", "t", " ", "B", "e", "r", "t" >>,
         << "f", "f", "7", "8", "4", "5", "c", "c", "9", "3", "e", "0", "9",
            "f", "9", "5", "9", "1", "b", "7", "4", "e", "c", "a", "4", "8",
            "c", "b", "1", "8", "2", "c" >> >>,
      << << "B", "e", "r", "t", " ", "a" >>,
         << "4", "1", "7", "b", "4", "3", "e", "0", "2", "0", "8", "e", "2",
            "5", "0", "5", "0", "d", "7", "f", "b", "8", "b", "a", "7", "a",
            "3", "3", "2", "8", "d", "1" >> >>,
      << << "a", " ", "B", "e", "r", "t" >>,
         << "f", "2", "2", "6", "3", "4", "a", "a", "a", "6", "4", "0", "a",
            "a", "7", "5", "c", "d", "2", "e", "b", "0", "2", "9", "f", "8",
            "7", "5", "6", "6", "c", "1" >> >>,
      << << "a", " ", "a" >>,
         << "1", "b", "b", "d", "a", "9", "b", "9", "4", "d", "e", "9", "e",
            "a", "f", "e", "9", "0", "6", "b", "7", "5", "b", "3", "0", "8",
            "3", "4", "a", "8", "b", "0" >> >>,
      << << "B", "e", "r", "t", " ", "B", "e", "r", "t", " ", "B", "e", "r",
            "t" >>,
         << "0", "0", "5", "f", "d", "9", "f", "6", "d", "3", "c", "d", "2",
            "f", "6", "8", "3", "c", "f", "c", "4", "f", "c", "f", "2", "9",
            "9", "7", "8", "c", "a", "0" >> >>,
      << << "B", "e", "r", "t", " ", "B", "e", "r", "t", " ", "a" >>,
         << "e", "d", "4", "5", "f", "b", "1", "9", "d", "1", "c", "f", "7",
            "5", "7", "7", "2", "6", "9", "d", "8", "d", "c", "0", "e", "0",
            "f", "5", "5", "8", "c", "7" >> >>,
      << << "B", "e", "r", "t", " ", "a", " ", "B", "e", "r", "t" >>,
         << "3", "1", "5", "2", "8", "1", "3", "4", "5", "4", "f", "f", "7",
            "5", "c", "6", "4", "9", "7", "9", "2", "3", "6", "0", "c", "1",
            "1", "d", "d", "4", "2", "4" >> >>,
      << << "B", "e", "r", "t", " ", "a", " ", "a" >>,
         << "1", "9", "6", "f", "f", "b", "4", "2", "6", "4", "f", "8", "d",
            "5", "9", "9", "4", "5", "a", "8", "9", "c", "b", "b", "4", "7",
            "9", "b", "c", "a", "6", "1" >> >>,
      << << "a", " ", "B", "e", "r", "t", " ", "B", "e", "r", "t" >>,
         << "8", "e", "5", "5", "8", "5", "2", "c", "e", "2", "5", "4", "0",
            "1", "3", "1", "c", "f", "e", "b", "e", "b", "1", "f", "9", "3",
            "b", "d", "2", "8", "d", "1" >> >>,
      << << "a", " ", "B", "e", "r", "t", " ", "a" >>,
         << "d", "8", "9", "2", "a", "5", "6", "b", "0", "b", "8", "1", "c",
            "d", "b", "d", "e", "4", "9", "1", "d", "a", "1", "a", "4", "5",
            "e", "2", "f", "0", "3", "d" >> >>,
      << << "a", " ", "a", " ", "B", "e", "r", "t" >>,
         << "4", "5", "b", "0", "5", "d", "4", "4", "4", "8", "a", "4", "4",
            "6", "d", "3", "4", "2", "7", "5", "2", "2", "0", "5", "5", "6",
            "0", "0", "e", "f", "f", "9" >> >>,
      << << "a", " ", "a", " ", "a" >>,
         << "7", "b", "b", "b", "5", "a", "2", "2", "c", "8", "b", "4", "5",
            "d", "d", "0", "b", "c", "4", "d", "c", "f", "8", "5", "f", "9",
            "b", "7", "c", "3", "f", "1" >> >> }

Md5Hex(s) == (CHOOSE e \in Md5Digests : e[1] = s)[2]

(***************************************************************************)
(* Entity span merge: lines 225-253 of _anonymize_free_text.  tagout is    *)
(* the tagger's output for one sentence, a sequence of [tok, pred]: the    *)
(* subword at each position and the index of its predicted label; the      *)
(* position i of the code is 0-based, tagout[i + 1] here.                  *)
(***************************************************************************)

\* tokens[i].replace("##", "")
Display(tok) == Replace(tok, << "#", "#" >>, << >>)

InList(x, l) == \E k \in 1..Len(l) : l[k] = x

\* a variant that merges adjacent subwords whatever their labels
ContinuesAdjacent(i, label, prev_i, prev_label) == i - 1 = prev_i

\* if ((i-1 == prev_i) & (label == prev_label))
Continues(i, label, prev_i, prev_label) == (i - 1 = prev_i) /\ (label = prev_label)

\* the body of the loop for position i, on the loop state
\* [words, prev_i, prev_label]
MergeOne(acc, i, tok, label, labels_to_anonymize) ==
    IF ~InList(label, labels_to_anonymize) THEN acc
    ELSE LET word == Display(tok)
             n == Len(acc.words)
         IN  IF n > 0 /\ Continues(i, label, acc.prev_i, acc.prev_label)
             THEN [words |-> [acc.words EXCEPT ![n] = @ \o << " " >> \o word],
                   prev_i |-> i, prev_label |-> label]
             ELSE [words |-> Append(acc.words, word),
                   prev_i |-> i, prev_label |-> label]

RECURSIVE MergeFrom(_, _, _, _, _)
MergeFrom(tagout, label_list, labels_to_anonymize, i, acc) ==
    IF i >= Len(tagout) THEN acc
    ELSE MergeFrom(tagout, label_list, labels_to_anonymize, i + 1,
                   MergeOne(acc, i, tagout[i + 1].tok,
                            label_list[tagout[i + 1].pred + 1],
                            labels_to_anonymize))

\* words_to_anonymize after the loop over enumerate(_preds)
MergeSpans(tagout, label_list, labels_to_anonymize) ==
    MergeFrom(tagout, label_list, labels_to_anonymize, 0,
              [words |-> << >>, prev_i |-> -1, prev_label |-> ""]).words

(***************************************************************************)
(* One sentence of a free-text cell: lines 179-261.  The loop state is     *)
(* [sentence, dict, steps]; steps is the record of the substitutions made, *)
(* each [old, new, before]: the content key, its token, and the sentence   *)
(* the replace acted on.  The result also tells the sentence the tagger    *)
(* was given (tagged), the sentence after the regex hashing (hashed), how  *)
(* many of the steps the regex hashing made (nregex) and the spans merged  *)
(* from the tagger's output (words).                                       *)
(***************************************************************************)

StrCell(s) == [ty |-> "str", s |-> s]

\* hash the key, record it if its token is new, substitute it everywhere
HashAndReplace(st, key) ==
    LET h == Md5Hex(key)
    IN  [sentence |-> Replace(st.sentence, key, h),
         dict     |-> UpdateIfNew(st.dict, h, StrCell(key)),
         steps    |-> Append(st.steps,
                             [old |-> key, new |-> h, before |-> st.sentence])]

RECURSIVE HashAll(_, _)
HashAll(st, keys) ==
    IF keys = << >> THEN st ELSE HashAll(HashAndReplace(st, Head(keys)), Tail(keys))

RECURSIVE RegexHashing(_, _)
\* lines 206-216: the matches of each pattern are found in the sentence as
\* the earlier patterns left it
RegexHashing(st, regexes) ==
    IF regexes = << >> THEN st
    ELSE RegexHashing(HashAll(st, FindAll(Head(regexes), st.sentence)),
                      Tail(regexes))

\* the sentence the tokenizer and the model are given: lines 186-195 run
\* before the regex hashing of lines 206-216
TaggerInput(_sentence, regex) == _sentence

AnonSentence(_sentence, regex, tagout, label_list, labels_to_anonymize, hash_dict_) ==
    LET tagged == TaggerInput(_sentence, regex)
        st0 == [sentence |-> _sentence, dict |-> hash_dict_, steps |-> << >>]
        st1 == IF regex.ty = "NoneType" THEN st0 ELSE RegexHashing(st0, regex.v)
        words == MergeSpans(tagout, label_list, labels_to_anonymize)
        st2 == HashAll(st1, words)
    IN  [sentence |-> st2.sentence, dict |-> st2.dict, steps |-> st2.steps,
         words |-> words, tagged |-> tagged, hashed |-> st1.sentence,
         nregex |-> Len(st1.steps)]

(***************************************************************************)
(* _anonymize_categorical: lines 296-304.                                  *)
(***************************************************************************)

RECURSIVE CategoricalFromStr(_, _)
\* a variant that records the string form of the value, not the value
CategoricalFromStr(l, acc) ==
    IF l = << >> THEN acc
    ELSE LET cat == Head(l)
             h == Md5Hex(cat.s)
         IN  CategoricalFromStr(Tail(l),
                 [data |-> Append(acc.data, StrCell(h)),
                  dict |-> Update(acc.dict, h, StrCell(cat.s))])

RECURSIVE CategoricalFrom(_, _)
\* the loop state is [data, dict]
CategoricalFrom(l, acc) ==
    IF l = << >> THEN acc
    ELSE LET cat == Head(l)
             h == Md5Hex(cat.s)
         IN  CategoricalFrom(Tail(l),
                 [data |-> Append(acc.data, StrCell(h)),
                  dict |-> Update(acc.dict, h, cat)])

AnonCategorical(l) == CategoricalFrom(l, [data |-> << >>, dict |-> << >>])

(***************************************************************************)
(* de_anonymize: lines 324-339.  A table is a function from its column     *)
(* names to the columns, each a sequence of cells.  The result is          *)
(* [err, df]: the exception raised ("" for none) and the frame returned.   *)
(***************************************************************************)

NaN == [ty |-> "float", s |-> << "n", "a", "n" >>]

\* Series.str.replace(_hash, _original): a cell that is no str becomes NaN
StrReplaceCol(col, h, orig) ==
    [i \in 1..Len(col) |->
        IF col[i].ty = "str" THEN StrCell(Replace(col[i].s, h, orig.s)) ELSE NaN]

RECURSIVE FreeTextPairs(_, _, _)
\* lines 331-332 for one column: the pairs in the dict's order
FreeTextPairs(r, col, d) ==
    IF d = << >> \/ r.err # "" THEN r
    ELSE IF col \notin DOMAIN r.df THEN [r EXCEPT !.err = "KeyError"]
    ELSE FreeTextPairs(
             [r EXCEPT !.df[col] = StrReplaceCol(@, d[1][1], d[1][2])],
             col, Tail(d))

RECURSIVE FreeTextCols(_, _)
FreeTextCols(r, ft) ==
    IF ft = << >> \/ r.err # "" THEN r
    ELSE FreeTextCols(FreeTextPairs(r, ft[1][1], ft[1][2]), Tail(ft))

\* Series.replace(_hash_dict): a cell equal to a key takes the key's value
ReplaceCol(col, d) ==
    [i \in 1..Len(col) |->
        IF col[i].ty = "str" /\ Has(d, col[i].s) THEN Get(d, col[i].s) ELSE col[i]]

RECURSIVE CategoricalCols(_, _)
CategoricalCols(r, cd) ==
    IF cd = << >> \/ r.err # "" THEN r
    ELSE IF cd[1][1] \notin DOMAIN r.df THEN [r EXCEPT !.err = "KeyError"]
    ELSE CategoricalCols([r EXCEPT !.df[cd[1][1]] = ReplaceCol(@, cd[1][2])],
                         Tail(cd))

DeAnonymizeResult(anonymized_df, hash_dictionary) ==
    IF hash_dictionary.ty # "dict"
    THEN [err |-> "AssertionError", df |-> anonymized_df]
    ELSE LET hd == hash_dictionary.v
             r0 == [err |-> "", df |-> anonymized_df]
             r1 == IF Has(hd, "free_text")
                   THEN FreeTextCols(r0, Get(hd, "free_text")) ELSE r0
         IN  IF Has(hd, "categorical")
             THEN CategoricalCols(r1, Get(hd, "categorical")) ELSE r1

(***************************************************************************)
(* anonymize: lines 91-143, with the loops of _anonymize_free_text         *)
(* (lines 171-266) it runs for each free-text column.  The call stops only *)
(* where it calls the tagger (lines 186-195), once per sentence; the rest  *)
(* runs on from there.  loc holds the locals of the call:                  *)
(*   df_, hash_dict, ft (_free_text_dict), fi (the place in                *)
(*   free_text_columns), l, regex, ri (the place in l), sentences, si (the *)
(*   place in sentences), anon_sentences, anonymized_data, hash_dict_,     *)
(* and two records of what the call did: minted, the <<column, token,      *)
(* content key>> of every token minted, and done, the columns finished.    *)
(* A step's outcome is [pc, loc, err].                                     *)
(***************************************************************************)

\* A Python value given as an argument or held by an attribute: its type,
\* the items of a list or a dict (v), the text of a str (s).
None == [ty |-> "NoneType", v |-> << >>, s |-> ""]

List(v) == [ty |-> "list", v |-> v, s |-> ""]

Str(s) == [ty |-> "str", v |-> << >>, s |-> s]

Dict(v) == [ty |-> "dict", v |-> v, s |-> ""]

\* an attribute that was never assigned
Unset == [ty |-> "unset", v |-> << >>, s |-> ""]

Frame(df_) ==
    [df_ |-> df_, hash_dict |-> << >>, ft |-> << >>, fi |-> 1, l |-> << >>,
     regex |-> None, ri |-> 1, sentences |-> << >>, si |-> 1,
     anon_sentences |-> << >>, anonymized_data |-> << >>, hash_dict_ |-> << >>,
     minted |-> {}, done |-> 0]

Raised(c, e) == [pc |-> "raised", loc |-> c, err |-> e]

RECURSIVE CategoricalPhase(_, _, _, _)
\* lines 137-139 from the column at place ci on; cd is _categorical_dict
CategoricalPhase(cols, ci, cd, c) ==
    IF ci > Len(cols)
    THEN [pc |-> "returned",
          loc |-> [c EXCEPT !.hash_dict = Update(@, "categorical", cd)],
          err |-> ""]
    ELSE IF cols[ci] \notin DOMAIN c.df_ THEN Raised(c, "KeyError")
    ELSE LET col == cols[ci]
             r == AnonCategorical(c.df_[col])
         IN  CategoricalPhase(cols, ci + 1, Update(cd, col, r.dict),
                 [c EXCEPT !.df_[col] = r.data,
                           !.minted = @ \cup { << col, r.dict[k][1], r.dict[k][2].s >> :
                                               k \in 1..Len(r.dict) },
                           !.done = @ + 1])

\* lines 131-143: the free-text columns are done
Finish(a, c) ==
    LET c1 == IF a.free_text_columns.ty = "list"
              THEN [c EXCEPT !.hash_dict = Update(@, "free_text", c.ft)]
              ELSE c
    IN  IF a.categorical_columns.ty = "list"
        THEN CategoricalPhase(a.categorical_columns.v, 1, << >>, c1)
        ELSE [pc |-> "returned", loc |-> c1, err |-> ""]

\* lines 122-125
RegexFor(a, col) ==
    IF a.free_text_additional_regex_to_hash.ty = "dict"
       /\ Has(a.free_text_additional_regex_to_hash.v, col)
    THEN List(Get(a.free_text_additional_regex_to_hash.v, col))
    ELSE None

RECURSIVE NextColumn(_, _)
RECURSIVE NextRow(_, _)

\* line 174 at row c.ri: the next sentence to tag, or the end of the column
\* (lines 266, 127-129)
NextRow(a, c) ==
    IF c.ri > Len(c.l)
    THEN LET col == a.free_text_columns.v[c.fi]
         IN  NextColumn(a, [c EXCEPT !.df_[col] = c.anonymized_data,
                                     !.ft = Update(@, col, c.hash_dict_),
                                     !.fi = @ + 1,
                                     !.done = @ + 1])
    ELSE IF c.l[c.ri].ty # "str" THEN Raised(c, "AttributeError")
    ELSE [pc |-> "tagging",
          loc |-> [c EXCEPT !.sentences = Split(c.l[c.ri].s, "."),
                            !.si = 1,
                            !.anon_sentences = << >>],
          err |-> ""]

\* line 119 at column c.fi
NextColumn(a, c) ==
    IF a.free_text_columns.ty # "list" \/ c.fi > Len(a.free_text_columns.v)
    THEN Finish(a, c)
    ELSE LET col == a.free_text_columns.v[c.fi]
         IN  IF col \notin DOMAIN c.df_ THEN Raised(c, "KeyError")
             ELSE NextRow(a, [c EXCEPT !.l = c.df_[col],
                                       !.regex = RegexFor(a, col),
                                       !.ri = 1,
                                       !.anonymized_data = << >>,
                                       !.hash_dict_ = << >>])

\* set(labels_to_anonymize).issubset(set(label_list))
Subset(l1, l2) == \A k \in 1..Len(l1) : InList(l1[k], l2)

\* a variant without the subset assertion of lines 104-106
ValidTypes(a) ==
    /\ a.free_text_columns.ty \in { "list", "NoneType" }
    /\ a.free_text_additional_regex_to_hash.ty \in { "dict", "NoneType" }
    /\ a.categorical_columns.ty \in { "list", "NoneType" }
    /\ a.pretrained_model_name.ty = "str"
    /\ a.label_list.ty = "list"
    /\ a.labels_to_anonymize.ty = "list"

\* lines 92-106: the assertions
Valid(a) ==
    /\ a.free_text_columns.ty \in { "list", "NoneType" }
    /\ a.free_text_additional_regex_to_hash.ty \in { "dict", "NoneType" }
    /\ a.categorical_columns.ty \in { "list", "NoneType" }
    /\ a.pretrained_model_name.ty = "str"
    /\ a.label_list.ty = "list"
    /\ a.labels_to_anonymize.ty = "list"
    /\ Subset(a.labels_to_anonymize.v, a.label_list.v)

\* lines 179-264 for the sentence at c.si, given the tagger's output for it
AfterSentence(a, c, r) ==
    LET col == a.free_text_columns.v[c.fi]
        c1 == [c EXCEPT !.anon_sentences = Append(@, r.sentence),
                        !.hash_dict_ = r.dict,
                        !.minted = @ \cup { << col, r.steps[k].new, r.steps[k].old >> :
                                            k \in 1..Len(r.steps) }]
    IN  IF c.si < Len(c.sentences)
        THEN [pc |-> "tagging", loc |-> [c1 EXCEPT !.si = @ + 1], err |-> ""]
        ELSE NextRow(a, [c1 EXCEPT
                 !.anonymized_data = Append(@, StrCell(Join(<< ".", " " >>,
                                                            c1.anon_sentences))),
                 !.ri = @ + 1])

(***************************************************************************)
(* The bounded inputs.                                                     *)
(***************************************************************************)

\* subwords per tagger output in a call of anonymize
MaxTokens == 1

\* sentences a call of anonymize may have to tag
MaxSentences == 2

\* subwords per tagger output when the span merge is checked on its own
MaxMergeLen == 4

Bert == << "B", "e", "r", "t" >>

SubA == << "#", "#", "a" >>

Al == << "A", "l" >>

Seven == << "7" >>

ThreeF == << "3", "f" >>

\* "Berta met Al. Al 3f"
TextA ==
    << "B", "e", "r", "t", "a", " ", "m", "e", "t", " ", "A", "l", ".",
       " ", "A", "l", " ", "3", "f" >>

\* "Al 3f Berta"
TextB == << "A", "l", " ", "3", "f", " ", "B", "e", "r", "t", "a" >>

IntCell(s) == [ty |-> "int", s |-> s]

NoneCell == [ty |-> "NoneType", s |-> << "N", "o", "n", "e" >>]

\* the frames a DataAnonymizer is constructed on: the columns of a frame
\* have the same number of rows
Tables ==
    { [t |-> << StrCell(TextA) >>, c |-> << NoneCell >>],
      [t |-> << StrCell(TextB) >>, c |-> << StrCell(Al) >>],
      [t |-> << StrCell(Al), StrCell(ThreeF) >>,
       c |-> << IntCell(Seven), StrCell(Seven) >>],
      [t |-> << StrCell(ThreeF), StrCell(Bert) >>,
       c |-> << NoneCell, NoneCell >>],
      [t |-> << StrCell(Al), StrCell(ThreeF), StrCell(Bert), StrCell(Al) >>,
       c |-> << IntCell(Seven), NoneCell, StrCell(Al), IntCell(Seven) >> ] }

\* the subwords the tagger's tokenizer yields
Subwords == { Bert, SubA }

\* ["O", "B-PER", "I-PER"]
LabelList == << "O", "B-PER", "I-PER" >>

\* the tagger's output for one sentence: at most n subwords, each with the
\* index of a label of label_list
TaggerOutputs(n, label_list) ==
    UNION { [1..k -> [tok : Subwords, pred : 0..(Len(label_list) - 1)]] : k \in 0..n }

Lit(s) == [kind |-> "lit", arg |-> s]

Run(s) == [kind |-> "run", arg |-> s]

\* {"t": [r"Al", r"3f"]} and {"t": [r"[AB]+", r"Al"]}
RegexDicts ==
    { Dict(<< << "t", << Lit(Al), Lit(ThreeF) >> >> >>),
      Dict(<< << "t", << Run(<< "A", "B" >>), Lit(Al) >> >> >>) }

RECURSIVE CountSentences(_, _)
\* the sentences of the columns cols of df: what a call has to tag
CountSentences(df, cols) ==
    IF cols = << >> THEN 0
    ELSE (IF Head(cols) \in DOMAIN df
          THEN LET col == df[Head(cols)]
                   n[i \in 0..Len(col)] ==
                       IF i = 0 THEN 0 ELSE n[i - 1] + Len(Split(col[i].s, "."))
               IN  n[Len(col)]
          ELSE 0) + CountSentences(df, Tail(cols))

\* the arguments of a call of anonymize on the frame df
Calls(df) ==
    { a \in [free_text_columns :
                 { None, Str("t"), List(<< "t" >>), List(<< "t", "t" >>),
                   List(<< "zz" >>) },
             free_text_additional_regex_to_hash :
                 { None, Str("t") } \cup RegexDicts,
             categorical_columns :
                 { None, Str("c"), List(<< "c" >>), List(<< "c", "zz" >>) },
             pretrained_model_name : { Str("dslim/bert-base-NER") },
             label_list : { List(LabelList) },
             labels_to_anonymize :
                 { List(<< "B-PER", "I-PER" >>), List(<< "B-LOC" >>) }] :
        a.free_text_columns.ty = "list"
            => CountSentences(df, a.free_text_columns.v) <= MaxSentences }

(***************************************************************************)
(* The state.                                                              *)
(***************************************************************************)

VARIABLES
    df,                     \* self.df
    label_list,             \* self.label_list
    labels_to_anonymize,    \* self.labels_to_anonymize
    pretrained_model_name,  \* self.pretrained_model_name
    pc,                     \* "idle", "tagging", "returned", "raised", "restored"
    args,                   \* the arguments of the call of anonymize
    loc,                    \* the locals of the call of anonymize
    err,                    \* the exception a call raised, "" for none
    last,                   \* what the call did with the last sentence: the
                            \* result of AnonSentence, the sentence as split
                            \* from the cell (given), hash_dict_ before it
                            \* (dict0), and the sentences tagged so far (n)
    dein,                   \* the arguments of the call of de_anonymize
    out,                    \* what de_anonymize returned
    m                       \* the span merge on its own: input and output

vars ==
    << df, label_list, labels_to_anonymize, pretrained_model_name, pc, args,
       loc, err, last, dein, out, m >>

NoSentence ==
    [sentence |-> << >>, dict |-> << >>, steps |-> << >>, words |-> << >>,
     tagged |-> << >>, hashed |-> << >>, nregex |-> 0, given |-> << >>,
     dict0 |-> << >>, n |-> 0]

NoCall ==
    [free_text_columns |-> None, free_text_additional_regex_to_hash |-> None,
     categorical_columns |-> None, pretrained_model_name |-> None,
     label_list |-> None, labels_to_anonymize |-> None]

NoMerge == [tagout |-> << >>, anonymize |-> << >>, words |-> << >>, done |-> FALSE]

\* __init__: lines 39-43
Init ==
    /\ df \in Tables
    /\ label_list = Unset
    /\ labels_to_anonymize = Unset
    /\ pretrained_model_name = Unset
    /\ pc = "idle"
    /\ args = NoCall
    /\ loc = Frame(df)
    /\ err = ""
    /\ last = NoSentence
    /\ dein = [df |-> << >>, hash_dictionary |-> None]
    /\ out = [err |-> "", df |-> << >>]
    /\ m = NoMerge

\* anonymize is called: lines 91-143 up to the first call of the tagger
Anonymize(a) ==
    /\ pc = "idle"
    /\ args' = a
    /\ IF ~Valid(a)
       THEN /\ pc' = "raised"
            /\ err' = "AssertionError"
            /\ UNCHANGED << label_list, labels_to_anonymize,
                            pretrained_model_name, loc >>
       ELSE LET o == NextColumn(a, Frame(df))
            IN  /\ label_list' = a.label_list
                /\ labels_to_anonymize' = a.labels_to_anonymize
                /\ pretrained_model_name' = a.pretrained_model_name
                /\ pc' = o.pc
                /\ loc' = o.loc
                /\ err' = o.err
    /\ UNCHANGED << df, last, dein, out, m >>

\* the tagger answers for the sentence at hand: the call runs on to the next
\* sentence, to its return or to an exception
TagSentence(tagout) ==
    /\ pc = "tagging"
    /\ LET given == loc.sentences[loc.si]
           r == AnonSentence(given, loc.regex, tagout, label_list.v,
                             labels_to_anonymize.v, loc.hash_dict_)
           o == AfterSentence(args, loc, r)
       IN  /\ last' = [sentence |-> r.sentence, dict |-> r.dict,
                       steps |-> r.steps, words |-> r.words,
                       tagged |-> r.tagged, hashed |-> r.hashed,
                       nregex |-> r.nregex, given |-> given,
                       dict0 |-> loc.hash_dict_, n |-> last.n + 1]
           /\ pc' = o.pc
           /\ loc' = o.loc
           /\ err' = o.err
    /\ UNCHANGED << df, label_list, labels_to_anonymize, pretrained_model_name,
                    args, dein, out, m >>

\* the frame without its column col
Without(table, col) == [x \in (DOMAIN table) \ { col } |-> table[x]]

\* the mappings without the first pair of each column's
DropFirstPairs(d) ==
    [k \in 1..Len(d) |->
        << d[k][1], [i \in 1..Len(d[k][2]) |->
                        << d[k][2][i][1],
                           IF d[k][2][i][2] = << >> THEN << >>
                           ELSE Tail(d[k][2][i][2]) >>] >>]

\* de_anonymize is called on what anonymize returned, or on a frame or a
\* mapping that differs from it
DeAnonymize(anonymized_df, hash_dictionary) ==
    /\ pc = "returned"
    /\ pc' = "restored"
    /\ dein' = [df |-> anonymized_df, hash_dictionary |-> hash_dictionary]
    /\ out' = DeAnonymizeResult(anonymized_df, hash_dictionary)
    /\ UNCHANGED << df, label_list, labels_to_anonymize, pretrained_model_name,
                    args, loc, err, last, m >>

\* the arguments of a call of de_anonymize, after anonymize returned df_ and
\* hash_dict
DeAnonymizeCalls(df_, hash_dict) ==
    { << df_, Dict(hash_dict) >>,
      << Without(df_, "c"), Dict(hash_dict) >>,
      << Without(df_, "t"), Dict(hash_dict) >>,
      << df_, Dict(DropFirstPairs(hash_dict)) >>,
      << df_, Str("free_text") >> }

Next ==
    \/ pc = "idle" /\ \E a \in Calls(df) : Anonymize(a)
    \/ pc = "tagging"
        /\ \E tagout \in TaggerOutputs(MaxTokens, label_list.v) : TagSentence(tagout)
    \/ pc = "returned"
        /\ \E x \in DeAnonymizeCalls(loc.df_, loc.hash_dict) : DeAnonymize(x[1], x[2])

Spec == Init /\ [][Next]_vars

(***************************************************************************)
(* The span merge on its own: every tagger output of at most MaxMergeLen   *)
(* subwords, under two choices of labels_to_anonymize.                     *)
(***************************************************************************)

InitMerge ==
    /\ df = CHOOSE table \in Tables : TRUE
    /\ label_list = List(LabelList)
    /\ labels_to_anonymize = Unset
    /\ pretrained_model_name = Unset
    /\ pc = "merge"
    /\ args = NoCall
    /\ loc = Frame(df)
    /\ err = ""
    /\ last = NoSentence
    /\ dein = [df |-> << >>, hash_dictionary |-> None]
    /\ out = [err |-> "", df |-> << >>]
    /\ m \in [tagout : TaggerOutputs(MaxMergeLen, LabelList),
               anonymize : { << "B-PER", "I-PER" >>, << "I-PER" >> },
               words : { << >> },
               done : { FALSE }]

\* lines 225-253 on the tagger output m.tagout
Merge ==
    /\ pc = "merge"
    /\ ~m.done
    /\ m' = [m EXCEPT !.words = MergeSpans(m.tagout, label_list.v, m.anonymize),
                      !.done = TRUE]
    /\ UNCHANGED << df, label_list, labels_to_anonymize, pretrained_model_name,
                    pc, args, loc, err, last, dein, out >>

NextMerge == Merge

SpecMerge == InitMerge /\ [][NextMerge]_vars

(***************************************************************************)
(* What the claims speak of.                                               *)
(***************************************************************************)

\* de_anonymize was given the frame and the mapping anonymize returned
RoundTrip ==
    /\ pc = "restored"
    /\ dein.df = loc.df_
    /\ dein.hash_dictionary = Dict(loc.hash_dict)

\* the call anonymized the one column t as free text, and no cell of it held
\* a token of the call to begin with
FreeTextOnly ==
    /\ args.free_text_columns = List(<< "t" >>)
    /\ args.categorical_columns = None
    /\ \A x \in loc.minted : \A i \in 1..Len(df.t) : ~Occurs(x[2], df.t[i].s)

\* the call anonymized the one column c as categorical
CategoricalOnly ==
    /\ args.free_text_columns = None
    /\ args.categorical_columns = List(<< "c" >>)

\* no two different values of the column have the same string form
DistinctForms(col) ==
    \A i, j \in 1..Len(col) : col[i].s = col[j].s => col[i] = col[j]

\* the columns of one section of hash_dict, << >> without the section
Section(hash_dict, name) == IF Has(hash_dict, name) THEN Get(hash_dict, name) ELSE << >>

\* the ColumnMapping of col in hash_dict: its pairs in either section
ColumnMapping(hash_dict, col) ==
    (IF Has(Section(hash_dict, "free_text"), col)
     THEN Get(Section(hash_dict, "free_text"), col) ELSE << >>)
    \o (IF Has(Section(hash_dict, "categorical"), col)
        THEN Get(Section(hash_dict, "categorical"), col) ELSE << >>)

\* whether hash_dict names the column col
Names(hash_dict, col) ==
    Has(Section(hash_dict, "free_text"), col) \/ Has(Section(hash_dict, "categorical"), col)

\* the token tok, minted from key, has exactly one pair in mapping, and the
\* pair gives it the value whose string form is key
OneEntry(mapping, tok, key) ==
    /\ Cardinality({ i \in 1..Len(mapping) : mapping[i][1] = tok }) = 1
    /\ \A i \in 1..Len(mapping) : mapping[i][1] = tok => mapping[i][2].s = key

\* a cell of the column holds the token
InColumn(tok, col) == \E i \in 1..Len(col) : Occurs(tok, col[i].s)

\* replacing old in the sentence before changes an occurrence of tok
Altered(before, old, tok) ==
    \E i \in Matches(before, old), j \in Occurrences(before, tok) :
        i < j + Len(tok) /\ j < i + Len(old)

\* the first value of the column l whose token is h
FirstOf(l, h) == l[CHOOSE i \in 1..Len(l) :
                      /\ Md5Hex(l[i].s) = h
                      /\ \A j \in 1..(i - 1) : Md5Hex(l[j].s) # h]

\* arguments the assertions of anonymize reject
BadArguments(a) ==
    \/ a.free_text_columns.ty \notin { "list", "NoneType" }
    \/ a.free_text_additional_regex_to_hash.ty \notin { "dict", "NoneType" }
    \/ a.categorical_columns.ty \notin { "list", "NoneType" }
    \/ \E k \in 1..Len(a.labels_to_anonymize.v) :
           \A j \in 1..Len(a.label_list.v) :
               a.labels_to_anonymize.v[k] # a.label_list.v[j]

\* a column list of the call names a column the frame does not have
MissingColumn(a) ==
    \/ \E k \in 1..Len(a.free_text_columns.v) : a.free_text_columns.v[k] \notin DOMAIN df
    \/ \E k \in 1..Len(a.categorical_columns.v) : a.categorical_columns.v[k] \notin DOMAIN df

Untouched ==
    /\ label_list = Unset
    /\ labels_to_anonymize = Unset
    /\ pretrained_model_name = Unset
    /\ loc = Frame(df)
    /\ last.n = 0

\* the span merge, stated on the positions 1..Len(m.tagout) of the sentence
LabelAt(i) == label_list.v[m.tagout[i].pred + 1]

Anonymizable(i) == InList(LabelAt(i), m.anonymize)

\* the subword at i continues the run of the subword before it
Extends(i) ==
    /\ i > 1
    /\ Anonymizable(i)
    /\ Anonymizable(i - 1)
    /\ LabelAt(i) = LabelAt(i - 1)

RunStarts == { i \in 1..Len(m.tagout) : Anonymizable(i) /\ ~Extends(i) }

\* the last position of the run that starts at i
RunEnd(i) ==
    CHOOSE j \in i..Len(m.tagout) :
        /\ \A k \in (i + 1)..j : Extends(k)
        /\ j = Len(m.tagout) \/ ~Extends(j + 1)

\* the run's display forms, a single space between them
Surface(i) ==
    LET Piece(k) == IF k = i THEN Display(m.tagout[k].tok)
                    ELSE << " " >> \o Display(m.tagout[k].tok)
    IN  Concat(Piece, i, RunEnd(i))

(***************************************************************************)
(* The claims.                                                             *)
(***************************************************************************)

\* C1: for a free-text column whose cells hold no token to begin with, for
\* every tagger output and every list of override patterns, de_anonymize of
\* what anonymize returned gives back every cell character for character.
C1_FreeTextRoundTrip ==
    (RoundTrip /\ FreeTextOnly) => (out.err = "" /\ out.df.t = df.t)

\* C2, as claimed: de_anonymize of what anonymize returned for a categorical
\* column gives back every cell's exact value, whatever the values are.
C2_CategoricalRoundTrip ==
    (RoundTrip /\ CategoricalOnly) => (out.err = "" /\ out.df.c = df.c)

\* C2, amended: the same, for a column in which no two different values
\* have the same string form.
C2_CategoricalRoundTripDistinctForms ==
    (RoundTrip /\ CategoricalOnly /\ DistinctForms(df.c))
        => (out.err = "" /\ out.df.c = df.c)

C2_Witness ==
    /\ RoundTrip
    /\ CategoricalOnly
    /\ DistinctForms(df.c)
    /\ \E i, j \in 1..Len(df.c) : i # j /\ df.c[i] = df.c[j]
    /\ \E i \in 1..Len(df.c) : df.c[i] = NoneCell
    /\ \E i \in 1..Len(df.c) : df.c[i].ty = "int" /\ out.df.c[i] = df.c[i]
    /\ \E i \in 1..Len(df.c) : df.c[i].ty = "str"
    /\ Len(Get(Get(loc.hash_dict, "categorical"), "c")) = 3
    /\ out.df.c = df.c
    /\ \A i \in 1..Len(df.c) : dein.df.c[i] = StrCell(Md5Hex(df.c[i].s))

\* C3: the sentence given to the tagger is the sentence after
\* the override substitution, so it holds nothing an override pattern matched.
C3_TaggerSeesSubstituted ==
    last.n > 0 =>
        /\ last.tagged = last.hashed
        /\ \A k \in 1..last.nregex : ~Occurs(last.steps[k].old, last.tagged)

\* C4: a token recorded with an original value keeps that value: in a
\* free-text column the pairs hash_dict_ held before a sentence are the
\* pairs it holds after it, and the mapping of a categorical column gives
\* each token the first value of the column that minted it.
C4_WriteOnce ==
    /\ last.n > 0 =>
           /\ Len(last.dict0) <= Len(last.dict)
           /\ \A i \in 1..Len(last.dict0) : last.dict[i] = last.dict0[i]
    /\ (pc \in { "returned", "restored" } /\ Has(loc.hash_dict, "categorical")) =>
           \A k \in 1..Len(Get(loc.hash_dict, "categorical")) :
               LET col == Get(loc.hash_dict, "categorical")[k][1]
                   mapping == Get(loc.hash_dict, "categorical")[k][2]
               IN  \A i \in 1..Len(mapping) :
                       mapping[i][2] = FirstOf(df[col], mapping[i][1])

\* C5: when anonymize has returned, every token minted for a
\* column that a cell of the column holds has exactly one pair in the
\* column's mapping, and the pair maps it to the content key it was minted
\* from.
C5_TokensMapped ==
    pc = "returned" =>
        \A x \in loc.minted :
            InColumn(x[2], loc.df_[x[1]])
                => OneEntry(ColumnMapping(loc.hash_dict, x[1]), x[2], x[3])

\* C6: de_anonymize, given a mapping, raises nothing; a column of the frame
\* the mapping does not name is returned as it was given; and a token of
\* the call that has no pair in the column's mapping stays in its cell.
C6_Tolerant ==
    (pc = "restored" /\ dein.hash_dictionary.ty = "dict") =>
        /\ out.err = ""
        /\ \A col \in DOMAIN dein.df :
               ~Names(dein.hash_dictionary.v, col) => out.df[col] = dein.df[col]
        /\ \A x \in loc.minted :
               (/\ x[1] \in DOMAIN dein.df
                /\ \A i \in 1..Len(ColumnMapping(dein.hash_dictionary.v, x[1])) :
                       ColumnMapping(dein.hash_dictionary.v, x[1])[i][1] # x[2])
               => \A i \in 1..Len(dein.df[x[1]]) :
                      Occurs(x[2], dein.df[x[1]][i].s)
                          => Occurs(x[2], out.df[x[1]][i].s)

\* C7, as claimed: a call whose column spec is no list, or names a column
\* the frame does not have, or whose labels_to_anonymize is no subset of
\* label_list, is rejected with no attribute assigned, no column processed
\* and no sentence tagged.
C7_EagerValidation ==
    (args # NoCall /\ (BadArguments(args) \/ MissingColumn(args)))
        => (pc = "raised" /\ Untouched)

\* C7, amended: that holds of a call whose column spec is no list (or whose
\* regex spec is no dict) or whose labels_to_anonymize is no subset of
\* label_list: it fails an assertion first of all.  A column name the frame
\* does not have is not checked up front: the call raises KeyError when it
\* comes to that column, with the attributes assigned by then.
C7_EagerTypeValidation ==
    /\ (args # NoCall /\ BadArguments(args))
           => (pc = "raised" /\ err = "AssertionError" /\ Untouched)
    /\ (pc = "raised" /\ err = "KeyError")
           => /\ MissingColumn(args)
              /\ label_list = args.label_list
              /\ labels_to_anonymize = args.labels_to_anonymize
              /\ pretrained_model_name = args.pretrained_model_name

C7_Witness ==
    /\ pc = "raised"
    /\ err = "AssertionError"
    /\ args.free_text_columns.ty = "list"
    /\ args.categorical_columns.ty = "list"
    /\ args.free_text_additional_regex_to_hash.ty = "dict"
    /\ BadArguments(args)
    /\ Untouched

\* C8: a subword with a label to anonymize continues the run at hand if and
\* only if it stands right after the run's last member and has that
\* member's label, and starts a run otherwise; each run gives one surface
\* string, the display forms of its members with single spaces between
\* them, and so one token.
C8_MergeRule ==
    m.done =>
        /\ Len(m.words) = Cardinality(RunStarts)
        /\ \A k \in 1..Len(m.words) : m.words[k] = Surface(Nth(RunStarts, k))

C8_Witness ==
    /\ m.done
    /\ Len(m.words) = 2
    /\ \E i \in 1..Len(m.tagout) : Extends(i) /\ m.tagout[i].tok = SubA
    /\ \E i \in 2..Len(m.tagout) :
           Anonymizable(i) /\ Anonymizable(i - 1) /\ LabelAt(i) # LabelAt(i - 1)
    /\ \E k \in 1..2 : Occurs(<< " " >>, m.words[k]) /\ ~Occurs(<< "#" >>, m.words[k])

\* C9: the list of spans of a sentence holds no surface string twice.
C9_DistinctSpans ==
    m.done => \A i, j \in 1..Len(m.words) : m.words[i] = m.words[j] => i = j

\* C10: within a sentence, no substitution changes a token an earlier
\* substitution of the sentence put there.
C10_TokensIntact ==
    last.n > 0 =>
        \A i, j \in 1..Len(last.steps) :
            (i < j /\ Occurs(last.steps[i].old, last.steps[i].before))
                => ~Altered(last.steps[j].before, last.steps[j].old,
                            last.steps[i].new)

====
